---------------------------- MODULE Spec2Model ----------------------------
(***************************************************************************)
(* CwaWeather-backend: an Express proxy in front of the CWA open-data      *)
(* weather API.  The repository holds three variants of the same server:   *)
(*   "part_000"  src/unnamed/part_000      (handler with the TTL cache)    *)
(*   "server_v1" src/server.js:1-193       (first variant, no cache)       *)
(*   "server_v2" src/server.js:194-467     (second variant; defines the    *)
(*                                          cache but never calls it)      *)
(* A behaviour of the model is one run of one of the three servers.        *)
(* Strings that the code converts (the :city parameter) are sequences of   *)
(* one-character strings, so that toLowerCase is computed, not assumed.    *)
(***************************************************************************)
EXTENDS Integers, Sequences, FiniteSets, TLC

VARIABLES
    variant,        \* which of the three server programs is running
    CWA_API_KEY,    \* process.env.CWA_API_KEY, read once at startup
    weatherCache,   \* the Map: lowercase city key -> [data, timestamp]
    now,            \* Date.now(), in milliseconds
    pending,        \* per :city parameter, the handlers suspended at
                    \* `await axios.get(...)`
    arrived,        \* how many requests the server has received
    req,            \* the request whose handler ran last
    res,            \* what that handler has sent so far
    lastFill        \* history: per lowercase key, the last request that
                    \* was answered 200 from an upstream fetch

vars == <<variant, CWA_API_KEY, weatherCache, now, pending, arrived, req, res, lastFill>>

---------------------------------------------------------------------------
(* Bounds of the model *)

MaxTicks == 2       \* the clock advances at most this many times
MaxRequests == 2    \* the server receives at most this many requests

TickMs == 15 * 60 * 1000    \* one clock step: a quarter of an hour

---------------------------------------------------------------------------
(* Program constants *)

CACHE_DURATION == 30 * 60 * 1000

Variants == {"part_000", "server_v1", "server_v2"}

UpperSeq == << "A","B","C","D","E","F","G","H","I","J","K","L","M",
               "N","O","P","Q","R","S","T","U","V","W","X","Y","Z" >>
LowerSeq == << "a","b","c","d","e","f","g","h","i","j","k","l","m",
               "n","o","p","q","r","s","t","u","v","w","x","y","z" >>

\* String.prototype.toLowerCase on one character, then on a string
LowerChar(c) ==
    IF \E i \in 1..Len(UpperSeq) : UpperSeq[i] = c
    THEN LowerSeq[CHOOSE i \in 1..Len(UpperSeq) : UpperSeq[i] = c]
    ELSE c

toLowerCase(s) == [i \in 1..Len(s) |-> LowerChar(s[i])]

K_tainan    == << "t","a","i","n","a","n" >>
K_kaohsiung == << "k","a","o","h","s","i","u","n","g" >>
K_taichung  == << "t","a","i","c","h","u","n","g" >>
K_taipei    == << "t","a","i","p","e","i" >>
K_taoyuan   == << "t","a","o","y","u","a","n" >>
K_newtaipei == << "n","e","w","t","a","i","p","e","i" >>

\* the own properties of the CITY_MAP object literal
CITY_MAP ==
    (K_tainan :> "Tainan City") @@ (K_kaohsiung :> "Kaohsiung City") @@
    (K_taichung :> "Taichung City") @@ (K_taipei :> "Taipei City") @@
    (K_taoyuan :> "Taoyuan City") @@ (K_newtaipei :> "New Taipei City")

CityKeys == DOMAIN CITY_MAP

\* CITY_MAP is a plain object literal, so a property read also finds what
\* Object.prototype provides.  Of the inherited names only these two are
\* their own lowercase form.
K_constructor == << "c","o","n","s","t","r","u","c","t","o","r" >>
K_proto       == << "_","_","p","r","o","t","o","_","_" >>
InheritedKeys == {K_constructor, K_proto}

\* CITY_MAP[key]: the display name, an inherited (truthy) value, or undefined
CityLookup(key) ==
    IF key \in CityKeys THEN CITY_MAP[key]
    ELSE IF key \in InheritedKeys THEN "[inherited]"
    ELSE "undefined"

Truthy(v) == v # "undefined"


---------------------------------------------------------------------------
(* The upstream: what `await axios.get(...)` can settle with *)

Slot(st, en, v) == [startTime |-> st, endTime |-> en, parameterName |-> v]
Element(name, time) == [elementName |-> name, time |-> time]

\* response.data of a resolved call.  shape says how far the structure goes:
\*   "empty"          no body at all (data is the empty string)
\*   "null"           the body is the JSON value null
\*   "norecords"      an object without `records`
\*   "nolocation"     `records` without `location`
\*   "emptylocation"  `records.location` is []
\*   "noelements"     location[0] has no `weatherElement`
\*   "ok"             location[0].weatherElement is the array given
Body(shape, name, descr, elements) ==
    [shape |-> shape, locationName |-> name, datasetDescription |-> descr,
     weatherElement |-> elements]

Malformed(shape) == Body(shape, "", "", << >>)

BodyA ==
    Body("ok", "loc", "36h",
         << Element("Wx",   << Slot("t0", "t1", "sunny"), Slot("t1", "t2", "rain") >>),
            Element("PoP",  << Slot("t0", "t1", "10"),    Slot("t1", "t2", "80") >>),
            Element("MinT", << Slot("t0", "t1", "20") >>),
            Element("UVI",  << Slot("t0", "t1", "9"),     Slot("t1", "t2", "9") >>) >>)

BodyB ==
    Body("ok", "loc", "36h",
         << Element("Wx",   << Slot("t2", "t3", "cloudy") >>),
            Element("MaxT", << Slot("t2", "t3", "30") >>),
            Element("CI",   << Slot("t2", "t3", "comfortable") >>),
            Element("WS",   << Slot("t2", "t3", "3") >>) >>)

BodyNoElementList == Body("ok", "loc", "36h", << >>)

Bodies ==
    { Malformed(sh) : sh \in {"empty", "null", "norecords", "nolocation",
                              "emptylocation", "noelements"} }
    \cup {BodyA, BodyB, BodyNoElementList}

\* error.response.data of a rejected call, after axios parsed the body:
\* "empty" (no body: ''), "null" (the JSON value null), or an object with a
\* `message`
ErrorData == { [kind |-> "empty",  message |-> "absent"],
               [kind |-> "null",   message |-> "absent"],
               [kind |-> "object", message |-> "present"] }

NoErrorData == [kind |-> "none", message |-> "absent"]

\* the error object of a rejected call: error.code and error.response
AxiosError(code, hasResponse, status, data) ==
    [code |-> code, hasResponse |-> hasResponse, status |-> status, data |-> data]

\* a TypeError thrown by the handler's own code: no code, no response
TypeError == AxiosError("", FALSE, 0, NoErrorData)

UpstreamStatuses == {401, 429, 503}

Rejections ==
    { AxiosError(c, FALSE, 0, NoErrorData) :
          c \in {"ECONNABORTED", "ETIMEDOUT", "ECONNREFUSED"} }
    \cup { AxiosError("ERR_BAD_REQUEST", TRUE, st, d) :
               st \in UpstreamStatuses, d \in ErrorData }

Resolved(body) == [kind |-> "resolve", body |-> body, error |-> TypeError]
Rejected(error) == [kind |-> "reject", body |-> Malformed("empty"), error |-> error]

Outcomes == { Resolved(b) : b \in Bodies } \cup { Rejected(e) : e \in Rejections }

---------------------------------------------------------------------------
(* The transform: upstream weather elements -> flat forecast periods *)

\* the switch with the bodies of the MinT and MaxT cases exchanged
SetField_SwappedTemps(v, forecast, elementName, value) ==
    CASE elementName = "Wx"   -> [forecast EXCEPT !.weather = value]
      [] elementName = "PoP"  ->
            [forecast EXCEPT !.rain = IF v = "server_v1" THEN value \o "%" ELSE value]
      [] elementName = "MinT" ->
            [forecast EXCEPT !.maxTemp = IF v = "server_v1" THEN value \o "C" ELSE value]
      [] elementName = "MaxT" ->
            [forecast EXCEPT !.minTemp = IF v = "server_v1" THEN value \o "C" ELSE value]
      [] elementName = "CI"   -> [forecast EXCEPT !.comfort = value]
      [] elementName = "WS"   -> [forecast EXCEPT !.windSpeed = value]
      [] OTHER                -> forecast

\* the `switch (element.elementName)` of the forEach body.  server_v1
\* appends a unit to three of the fields ("%", and the degree unit, written
\* "C" here), the other variants copy the value.
SetField(v, forecast, elementName, value) ==
    CASE elementName = "Wx"   -> [forecast EXCEPT !.weather = value]
      [] elementName = "PoP"  ->
            [forecast EXCEPT !.rain = IF v = "server_v1" THEN value \o "%" ELSE value]
      [] elementName = "MinT" ->
            [forecast EXCEPT !.minTemp = IF v = "server_v1" THEN value \o "C" ELSE value]
      [] elementName = "MaxT" ->
            [forecast EXCEPT !.maxTemp = IF v = "server_v1" THEN value \o "C" ELSE value]
      [] elementName = "CI"   -> [forecast EXCEPT !.comfort = value]
      [] elementName = "WS"   -> [forecast EXCEPT !.windSpeed = value]
      [] OTHER                -> forecast

\* weatherElements.forEach(...) for period i, from element n on.
\* `if (!timeData) return;` skips an element that has no slot i.
RECURSIVE ForEachElement(_, _, _, _, _)
ForEachElement(v, forecast, elements, i, n) ==
    IF n > Len(elements) THEN forecast
    ELSE LET element == elements[n]
             next == IF i > Len(element.time) THEN forecast
                     ELSE SetField(v, forecast, element.elementName,
                                   element.time[i].parameterName)
         IN  ForEachElement(v, next, elements, i, n + 1)

\* one pass of the `for (let i = 0; i < count; i++)` loop (i counts from 1 here)
Forecast(v, elements, i) ==
    ForEachElement(v,
        [startTime |-> elements[1].time[i].startTime,
         endTime   |-> elements[1].time[i].endTime,
         weather |-> "", rain |-> "", minTemp |-> "", maxTemp |-> "",
         comfort |-> "", windSpeed |-> ""],
        elements, i, 1)

\* the forEach body without `if (!timeData) return;`: reading
\* timeData.parameter throws for an element with fewer slots than the first
TransformThrows_Strict(body) ==
    \/ body.shape = "noelements"
    \/ Len(body.weatherElement) = 0
    \/ \E n \in 1..Len(body.weatherElement) :
         Len(body.weatherElement[n].time) < Len(body.weatherElement[1].time)

\* `weatherElements[0].time.length` throws a TypeError when weatherElement
\* is missing or is the empty array
TransformThrows(body) ==
    body.shape = "noelements" \/ Len(body.weatherElement) = 0

\* the weatherData object with the key of one city written into it
Transform_FixedKey(v, body, cityKey) ==
    [city       |-> body.locationName,
     cityKey    |-> K_tainan,
     updateTime |-> body.datasetDescription,
     forecasts  |-> [i \in 1..Len(body.weatherElement[1].time) |->
                        Forecast(v, body.weatherElement, i)]]

\* the weatherData object built from location[0]
Transform(v, body, cityKey) ==
    [city       |-> body.locationName,
     cityKey    |-> cityKey,
     updateTime |-> body.datasetDescription,
     forecasts  |-> [i \in 1..Len(body.weatherElement[1].time) |->
                        Forecast(v, body.weatherElement, i)]]

---------------------------------------------------------------------------
(* Responses *)

Undefined == [city |-> "", cityKey |-> << >>, updateTime |-> "", forecasts |-> << >>,
              undefined |-> TRUE]

\* res.status(status).json({success, data, cached, message, ...}); a field
\* the body does not carry is "absent"
Json(status, success, cached, data, message) ==
    [kind |-> "json", status |-> status, success |-> success, cached |-> cached,
     data |-> data, message |-> message]

ErrorJson(status, success) == Json(status, success, "absent", Undefined, "present")

\* no res.* call was made: before the first request ("none"), while the
\* handler is suspended ("pending"), and when the handler's promise rejects
\* because an exception was thrown inside the catch block
NoResponse(kind) ==
    [kind |-> kind, status |-> 0, success |-> "absent", cached |-> "absent",
     data |-> Undefined, message |-> "absent"]

Escaped == NoResponse("unhandledRejection")

---------------------------------------------------------------------------
(* The cache *)

\* the lookup with the TTL written in seconds instead of milliseconds
getCachedWeather_Seconds(cityKey) ==
    IF cityKey \in DOMAIN weatherCache
       /\ now - weatherCache[cityKey].timestamp < 30 * 60
    THEN weatherCache[cityKey].data
    ELSE Undefined

\* the lookup with <= in place of <
getCachedWeather_Inclusive(cityKey) ==
    IF cityKey \in DOMAIN weatherCache
       /\ now - weatherCache[cityKey].timestamp <= CACHE_DURATION
    THEN weatherCache[cityKey].data
    ELSE Undefined

\* weatherCache.get(cityKey) with the freshness test; Undefined stands for
\* the `return null`
getCachedWeather(cityKey) ==
    IF cityKey \in DOMAIN weatherCache
       /\ now - weatherCache[cityKey].timestamp < CACHE_DURATION
    THEN weatherCache[cityKey].data
    ELSE Undefined

\* a put that updates the data of an existing record and keeps its timestamp
setCachedWeather_KeepTimestamp(cityKey, data) ==
    [k \in DOMAIN weatherCache \cup {cityKey} |->
        IF k = cityKey
        THEN [data |-> data,
              timestamp |-> IF cityKey \in DOMAIN weatherCache
                            THEN weatherCache[cityKey].timestamp ELSE now]
        ELSE weatherCache[k]]

\* a put that leaves a record alone while it is still fresh
setCachedWeather_KeepFresh(cityKey, data) ==
    [k \in DOMAIN weatherCache \cup {cityKey} |->
        IF k = cityKey
        THEN IF cityKey \in DOMAIN weatherCache
                /\ now - weatherCache[cityKey].timestamp < CACHE_DURATION
             THEN weatherCache[cityKey]
             ELSE [data |-> data, timestamp |-> now]
        ELSE weatherCache[k]]

\* the Map after weatherCache.set(cityKey, {data, timestamp: Date.now()})
setCachedWeather(cityKey, data) ==
    [k \in DOMAIN weatherCache \cup {cityKey} |->
        IF k = cityKey THEN [data |-> data, timestamp |-> now]
        ELSE weatherCache[k]]

---------------------------------------------------------------------------
(* getCityWeather after `await axios.get(...)` has settled *)

\* what the rest of a handler does: the response, and whether it stored
\* `data` in the cache first
Done(response) == [res |-> response, put |-> FALSE, data |-> Undefined]
Stored(response, data) == [res |-> response, put |-> TRUE, data |-> data]

\* catch block of src/unnamed/part_000.  Its logging line takes
\* JSON.stringify(error.response.data).substring(...), which is defined for
\* every value axios puts there (a string, or a parsed JSON value, null
\* included), so the block always reaches one of its four answers.
CatchPart000(error) ==
    IF error.code = "ECONNABORTED" THEN ErrorJson(504, "false")
    ELSE IF error.hasResponse /\ error.status = 401 THEN ErrorJson(500, "false")
    ELSE IF error.hasResponse /\ error.status = 429 THEN ErrorJson(429, "false")
    ELSE ErrorJson(500, "false")

\* catch block of the first variant in src/server.js.  Reading
\* error.response.data.message throws when the parsed body is null, and an
\* exception thrown in a catch block leaves the async handler.
CatchServerV1(error) ==
    IF error.hasResponse
    THEN IF error.data.kind = "null" THEN Escaped
         ELSE ErrorJson(error.status, "absent")
    ELSE ErrorJson(500, "absent")

\* catch block of the second variant in src/server.js
CatchServerV2(error) ==
    IF error.code \in {"ECONNABORTED", "ETIMEDOUT"} THEN ErrorJson(504, "false")
    ELSE IF error.hasResponse
    THEN IF error.data.kind = "null" THEN Escaped
         ELSE ErrorJson(error.status, "false")
    ELSE ErrorJson(500, "false")

\* the try block reading the location through optional chaining, so that a
\* body without data, records or location falls into the 404 branch
TryPart000_OptionalChain(cityKey, body) ==
    IF body.shape \in {"empty", "null", "norecords", "nolocation", "emptylocation"}
    THEN Done(ErrorJson(404, "false"))
    ELSE IF TransformThrows(body)
    THEN Done(CatchPart000(TypeError))
    ELSE LET weatherData == Transform("part_000", body, cityKey)
         IN  Stored(Json(200, "true", "absent", weatherData, "absent"), weatherData)

\* the try block storing before it has looked at the location list
TryPart000_StoreFirst(cityKey, body) ==
    IF body.shape \in {"empty", "null", "norecords", "nolocation"}
    THEN Done(ErrorJson(500, "false"))
    ELSE IF body.shape = "emptylocation"
    THEN Stored(ErrorJson(404, "false"), Undefined)
    ELSE IF TransformThrows(body)
    THEN Done(CatchPart000(TypeError))
    ELSE LET weatherData == Transform("part_000", body, cityKey)
         IN  Stored(Json(200, "true", "absent", weatherData, "absent"), weatherData)

\* the try block of src/unnamed/part_000 from the structure check on
TryPart000(cityKey, body) ==
    IF body.shape \in {"empty", "null", "norecords", "nolocation"}
    THEN Done(ErrorJson(500, "false"))
    ELSE IF body.shape = "emptylocation"
    THEN Done(ErrorJson(404, "false"))
    ELSE IF TransformThrows(body)
    THEN Done(CatchPart000(TypeError))
    ELSE LET weatherData == Transform("part_000", body, cityKey)
         IN  Stored(Json(200, "true", "absent", weatherData, "absent"), weatherData)

\* the try block of the two variants in src/server.js: no structure check
\* (response.data.records.location[0] throws on a body without them), no cache
TryServer(v, cityKey, body) ==
    LET catch(error) == IF v = "server_v1" THEN CatchServerV1(error)
                        ELSE CatchServerV2(error)
    IN  IF body.shape \in {"empty", "null", "norecords", "nolocation"}
        THEN Done(catch(TypeError))
        ELSE IF body.shape = "emptylocation"
        THEN Done(ErrorJson(404, IF v = "server_v1" THEN "absent" ELSE "false"))
        ELSE IF TransformThrows(body)
        THEN Done(catch(TypeError))
        ELSE Done(Json(200, "true", "absent", Transform(v, body, cityKey), "absent"))

\* the handler of variant v for lowercase key cityKey, resumed with `settled`
AfterAwait(v, cityKey, settled) ==
    IF settled.kind = "resolve"
    THEN IF v = "part_000" THEN TryPart000(cityKey, settled.body)
         ELSE TryServer(v, cityKey, settled.body)
    ELSE Done(CASE v = "part_000"  -> CatchPart000(settled.error)
                [] v = "server_v1" -> CatchServerV1(settled.error)
                [] OTHER           -> CatchServerV2(settled.error))

---------------------------------------------------------------------------
(* Inputs *)

P_tainan      == K_tainan
P_TAINAN      == << "T","A","I","N","A","N" >>
P_TaiPei      == << "T","a","i","P","e","i" >>
P_Atlantis    == << "A","t","l","a","n","t","i","s" >>
P_Constructor == << "C","o","n","s","t","r","u","c","t","o","r" >>

\* the :city parameters clients send
CityParams == {P_tainan, P_TAINAN, P_TaiPei, P_Atlantis, P_Constructor}

\* requests that match no route of any variant
UnroutedRequests == {"POST /api/cache/clear"}

\* process.env.CWA_API_KEY: unset (or empty), or a key
ApiKeys == { << >>, << "k","e","y" >> }

\* the request a handler ran for: `called` says whether it called the
\* upstream, `upstream` how the call settled ("none" while it has not:
\* "resolve" or "reject" once it has), `replaced` the timestamp of the
\* cache record its put overwrote (-1: it put nothing or the key was new)
WeatherRoute == "GET /api/weather/:city"
Request(route, city, called, upstream, replaced) ==
    [route |-> route, city |-> city, called |-> called, upstream |-> upstream,
     replaced |-> replaced]
NoRequest == Request("none", << >>, FALSE, "none", -1)

---------------------------------------------------------------------------
(* The state machine *)

Init ==
    /\ variant \in Variants
    /\ CWA_API_KEY \in ApiKeys
    /\ weatherCache = << >>
    /\ now = 0
    /\ pending = [c \in CityParams |-> 0]
    /\ arrived = 0
    /\ req = NoRequest
    /\ res = NoResponse("none")
    /\ lastFill = << >>

\* the handler answers without calling the upstream
Respond(city, response) ==
    /\ req' = Request(WeatherRoute, city, FALSE, "none", -1)
    /\ res' = response
    /\ UNCHANGED <<variant, CWA_API_KEY, weatherCache, now, pending, lastFill>>

\* axios.get(...) is called and the handler is suspended
CallUpstream(city) ==
    /\ pending' = [pending EXCEPT ![city] = @ + 1]
    /\ req' = Request(WeatherRoute, city, TRUE, "none", -1)
    /\ res' = NoResponse("pending")
    /\ UNCHANGED <<variant, CWA_API_KEY, weatherCache, now, lastFill>>

\* the handler without the `if (!CWA_API_KEY)` check
getCityWeather_NoKeyCheck(city) ==
    LET cityKey == toLowerCase(city)
        locationName == CityLookup(cityKey)
        errSuccess == IF variant = "server_v1" THEN "absent" ELSE "false"
    IN  /\ arrived < MaxRequests
        /\ arrived' = arrived + 1
        /\ IF ~Truthy(locationName)
             THEN Respond(city, ErrorJson(400, errSuccess))
           ELSE IF variant = "part_000" /\ getCachedWeather(cityKey) # Undefined
             THEN Respond(city, Json(200, "true", "true", getCachedWeather(cityKey),
                                     "absent"))
           ELSE CallUpstream(city)

\* GET /api/weather/:city, up to the first `await`: resolve the city, look
\* in the cache (part_000 only), check the credential, call the upstream
getCityWeather(city) ==
    LET cityKey == toLowerCase(city)
        locationName == CityLookup(cityKey)
        errSuccess == IF variant = "server_v1" THEN "absent" ELSE "false"
    IN  /\ arrived < MaxRequests
        /\ arrived' = arrived + 1
        /\ IF ~Truthy(locationName)
             THEN Respond(city, ErrorJson(400, errSuccess))
           ELSE IF variant = "part_000" /\ getCachedWeather(cityKey) # Undefined
             THEN Respond(city, Json(200, "true", "true", getCachedWeather(cityKey),
                                     "absent"))
           ELSE IF Len(CWA_API_KEY) = 0
             THEN Respond(city, ErrorJson(500, errSuccess))
           ELSE CallUpstream(city)

\* the upstream call of a handler suspended for `city` settles and the
\* handler runs to its end
UpstreamSettles(city, settled) ==
    /\ pending[city] > 0
    /\ LET cityKey == toLowerCase(city)
           result == AfterAwait(variant, cityKey, settled)
       IN  /\ res' = result.res
           /\ req' = Request(WeatherRoute, city, TRUE, settled.kind,
                              IF result.put /\ cityKey \in DOMAIN weatherCache
                              THEN weatherCache[cityKey].timestamp ELSE -1)
           /\ weatherCache' = IF result.put THEN setCachedWeather(cityKey, result.data)
                              ELSE weatherCache
           /\ lastFill' = IF result.res.status = 200
                          THEN [k \in DOMAIN lastFill \cup {cityKey} |->
                                   IF k = cityKey
                                   THEN [body |-> settled.body, at |-> now,
                                         data |-> result.res.data]
                                   ELSE lastFill[k]]
                          ELSE lastFill
    /\ pending' = [pending EXCEPT ![city] = @ - 1]
    /\ UNCHANGED <<variant, CWA_API_KEY, now, arrived>>

\* the 404 middleware at the end of the chain
NotFound(route) ==
    /\ arrived < MaxRequests
    /\ arrived' = arrived + 1
    /\ req' = Request(route, << >>, FALSE, "none", -1)
    /\ res' = CASE variant = "part_000"  -> Json(404, "false", "absent", Undefined, "present")
                [] variant = "server_v1" -> Json(404, "absent", "absent", Undefined, "absent")
                [] OTHER                 -> Json(404, "false", "absent", Undefined, "absent")
    /\ UNCHANGED <<variant, CWA_API_KEY, weatherCache, now, pending, lastFill>>

\* time passes
Tick ==
    /\ now < MaxTicks * TickMs
    /\ now' = now + TickMs
    /\ UNCHANGED <<variant, CWA_API_KEY, weatherCache, pending, arrived, req, res,
                   lastFill>>

Next ==
    \/ \E city \in CityParams : getCityWeather(city)
    \/ \E city \in CityParams, settled \in Outcomes : UpstreamSettles(city, settled)
    \/ \E route \in UnroutedRequests : NotFound(route)
    \/ Tick

Spec == Init /\ [][Next]_vars

---------------------------------------------------------------------------
(* The transform on its own: one request whose upstream call resolves with *)
(* any location of up to MaxElems weather elements of up to MaxSlots time   *)
(* slots each.                                                               *)

MaxElems == 2
MaxSlots == 2

\* the element codes the upstream sends: the six of the switch and one more
ElementCodes == {"Wx", "PoP", "MinT", "MaxT", "CI", "WS", "UVI"}

\* the element code each forecast field is filled from
FieldOf == [Wx |-> "weather", PoP |-> "rain", MinT |-> "minTemp",
            MaxT |-> "maxTemp", CI |-> "comfort", WS |-> "windSpeed"]

\* the times of a slot are written with the code of its element and the
\* value with the code and the length of the series too, so that the slots
\* of two different elements differ in every time and every value
TimeNames == << "t0", "t1", "t2", "t3", "t4" >>

\* an element of code `code` with a series of n slots
GenElement(code, n) ==
    Element(code, [j \in 1..n |-> Slot(code \o TimeNames[j], code \o TimeNames[j + 1],
                                       code \o TimeNames[n] \o TimeNames[j])])

GenElements == { GenElement(code, n) : code \in ElementCodes, n \in 0..MaxSlots }

\* response.data of a resolved call whose location[0] has these elements
GenBodies ==
    { Body("ok", "loc", "36h", elements) :
        elements \in UNION { [1..n -> GenElements] : n \in 0..MaxElems } }

InitT ==
    /\ Init
    /\ Len(CWA_API_KEY) > 0

\* the one request of this specification arrives
RequestT == arrived = 0 /\ getCityWeather(P_TaiPei)

\* its upstream call resolves
ResolveT ==
    /\ pending[P_TaiPei] > 0
    /\ \E body \in GenBodies : UpstreamSettles(P_TaiPei, Resolved(body))

NextT == RequestT \/ ResolveT

SpecT == InitT /\ [][NextT]_vars

---------------------------------------------------------------------------
(* Properties.  The cache is used by the handler of part_000 only, so the   *)
(* properties about the cache are stated of that variant.                    *)

\* the record of cityKey is in the cache and older than the TTL allows
Stale(cityKey) ==
    /\ cityKey \in DOMAIN weatherCache
    /\ now - weatherCache[cityKey].timestamp >= CACHE_DURATION

\* the handler that ran last was one for `city` that called the upstream and
\* is still waiting.  When the record of its key is in the cache, that
\* handler found it there and missed on it.
WaitingSince(city) ==
    /\ req = Request(WeatherRoute, city, TRUE, "none", -1)
    /\ res.kind = "pending"
    /\ pending[city] > 0

\* C1: once a request for a supported city was answered 200 from an upstream
\* fetch, every request for that city, in any letter case, that arrives less
\* than 30 minutes after that answer is answered 200 with cached:true and
\* the data of that answer, without an upstream call.
C1_CachedWithinTTL ==
    [][ \A city \in CityParams :
          LET k == toLowerCase(city)
          IN  ( /\ variant = "part_000"
                /\ k \in CityKeys
                /\ k \in DOMAIN lastFill
                /\ now - lastFill[k].at < CACHE_DURATION
                /\ getCityWeather(city) )
              => /\ res' = Json(200, "true", "true", lastFill[k].data, "absent")
                 /\ ~req'.called
                 /\ pending' = pending ]_vars

\* a request in capitals answered from a record that is 15 minutes old
C1_Witness ==
    /\ variant = "part_000"
    /\ req.city = P_TAINAN
    /\ res.cached = "true"
    /\ K_tainan \in DOMAIN lastFill
    /\ now - lastFill[K_tainan].at = TickMs

\* C2 as amended: a request that finds a stale record calls the upstream
\* afresh, and when that call resolves and the handler answers 200 the
\* record is replaced by the new payload with the time of the put.
C2_StaleRefetchOverwritesOn200 ==
    [][ \A city \in CityParams :
          LET k == toLowerCase(city)
          IN  (variant = "part_000" /\ Stale(k)) =>
                /\ getCityWeather(city)
                     => /\ req'.called
                        /\ pending'[city] = pending[city] + 1
                        /\ weatherCache' = weatherCache
                /\ \A settled \in Outcomes :
                     ( /\ WaitingSince(city)
                       /\ UpstreamSettles(city, settled)
                       /\ settled.kind = "resolve"
                       /\ res'.status = 200 )
                     => weatherCache'[k] = [data |-> res'.data, timestamp |-> now]
      ]_vars

\* a record put at time 0 was replaced half an hour later
C2_Witness ==
    /\ variant = "part_000"
    /\ res.status = 200
    /\ req.replaced >= 0
    /\ now - req.replaced >= CACHE_DURATION
    /\ weatherCache[toLowerCase(req.city)].timestamp = now

\* C2 as stated: a request that finds a stale record calls the upstream
\* afresh, and when that call succeeds the record is replaced by the new
\* payload with the time of the put.
C2_StaleRefetchOverwrites ==
    [][ \A city \in CityParams :
          LET k == toLowerCase(city)
          IN  (variant = "part_000" /\ Stale(k)) =>
                /\ getCityWeather(city)
                     => /\ req'.called
                        /\ pending'[city] = pending[city] + 1
                /\ \A settled \in Outcomes :
                     ( /\ WaitingSince(city)
                       /\ UpstreamSettles(city, settled)
                       /\ settled.kind = "resolve" )
                     => /\ res'.status = 200
                        /\ weatherCache'[k] = [data |-> res'.data, timestamp |-> now]
      ]_vars

\* C3: a :city parameter whose lowercase form is not a key of the city map
\* is answered 400, never reaches the upstream and never gets a cache record.
C3_UnsupportedIs400 ==
    /\ \A city \in CityParams :
          toLowerCase(city) \notin CityKeys => pending[city] = 0
    /\ (req.route = WeatherRoute /\ toLowerCase(req.city) \notin CityKeys)
          => (res.status = 400 /\ ~req.called)
    /\ DOMAIN weatherCache \subseteq CityKeys

\* C4: the lookup gives the stored payload exactly when a record exists and
\* now - timestamp < TTL, and no lookup changes the store.
C4_LookupFreshOnly ==
    [][ \A city \in CityParams :
          LET k == toLowerCase(city)
              fresh == /\ k \in DOMAIN weatherCache
                       /\ now - weatherCache[k].timestamp < CACHE_DURATION
          IN  ( /\ variant = "part_000"
                /\ Truthy(CityLookup(k))
                /\ getCityWeather(city) )
              => /\ (res'.cached = "true") <=> fresh
                 /\ fresh => res'.data = weatherCache[k].data
                 /\ weatherCache' = weatherCache ]_vars

\* a lookup has just missed on a record aged exactly 30 minutes, and the
\* record is still in the store
C4_Witness ==
    /\ variant = "part_000"
    /\ res.kind = "pending"
    /\ toLowerCase(req.city) \in DOMAIN weatherCache
    /\ now - weatherCache[toLowerCase(req.city)].timestamp = CACHE_DURATION

\* C5: a weather request whose handler has run to its end has been sent a
\* JSON response; no exception leaves the handler (part_000 and the second
\* variant of server.js, whose catch blocks the claim names).
C5_NoEscape ==
    ( /\ variant \in {"part_000", "server_v2"}
      /\ req.route = WeatherRoute
      /\ res.kind # "pending" )
    => res.kind = "json"

\* C6: for a supported city, an upstream timeout is answered 504, an upstream
\* 401 is answered 500 and an upstream 429 is answered 429, and none of them
\* writes to the cache (upstream errors that carry a JSON object).
C6_TimeoutAuthRateLimit ==
    [][ \A city \in CityParams, settled \in Outcomes :
          LET error == settled.error
          IN  ( /\ variant \in {"part_000", "server_v2"}
                /\ toLowerCase(city) \in CityKeys
                /\ settled.kind = "reject"
                /\ error.hasResponse => error.data.kind = "object"
                /\ UpstreamSettles(city, settled) )
              => /\ error.code = "ECONNABORTED" => res'.status = 504
                 /\ (error.hasResponse /\ error.status = 401) => res'.status = 500
                 /\ (error.hasResponse /\ error.status = 429) => res'.status = 429
                 /\ weatherCache' = weatherCache ]_vars

\* C7: a request answered 200 from an upstream fetch has its payload in the
\* cache and cached=false in its body.
C7_FreshAnswerSaysNotCached ==
    ( /\ variant = "part_000"
      /\ req.route = WeatherRoute
      /\ req.upstream = "resolve"
      /\ res.status = 200 )
    => /\ res.cached = "false"
       /\ toLowerCase(req.city) \in DOMAIN weatherCache
       /\ weatherCache[toLowerCase(req.city)].data = res.data

\* C8: after POST /api/cache/clear the cache holds no record.
C8_ClearEmptiesCache ==
    req.route = "POST /api/cache/clear" => DOMAIN weatherCache = {}

\* C9: the cache changes only in a step in which a handler whose upstream
\* call resolved answers 200, and then by the replacement of that one entry
\* by {the data of the answer, the time of the put}; so a step that ends in
\* any other answer leaves every record as it was.
C9_OnlySuccessWrites ==
    [][ (variant = "part_000" /\ weatherCache' # weatherCache)
        => /\ req'.route = WeatherRoute
           /\ req'.upstream = "resolve"
           /\ res'.status = 200
           /\ LET k == toLowerCase(req'.city)
              IN  weatherCache' =
                     [x \in DOMAIN weatherCache \cup {k} |->
                         IF x = k THEN [data |-> res'.data, timestamp |-> now]
                         ELSE weatherCache[x]] ]_vars

\* a request for a cached key went upstream and failed; the record is there
C9_Witness ==
    /\ variant = "part_000"
    /\ req.upstream # "none"
    /\ res.kind = "json"
    /\ res.status # 200
    /\ toLowerCase(req.city) \in DOMAIN weatherCache

\* C10: every cache record is the transform of the body of one upstream
\* fetch with the time of its put, and it is the record of the last handler
\* that was answered 200 for that key, whatever the interleaving.
C10_RecordIsLastPut ==
    variant = "part_000" =>
        /\ DOMAIN weatherCache = DOMAIN lastFill
        /\ \A k \in DOMAIN weatherCache :
              /\ lastFill[k].body.shape = "ok"
              /\ ~TransformThrows(lastFill[k].body)
              /\ weatherCache[k] =
                    [data |-> Transform("part_000", lastFill[k].body, k),
                     timestamp |-> lastFill[k].at]

\* two handlers for one key were in flight together: the put of the second
\* replaced a record that was still fresh, which a handler that arrived
\* after that record was stored would have been answered from
C10_Witness ==
    /\ variant = "part_000"
    /\ res.status = 200
    /\ req.replaced >= 0
    /\ now - req.replaced < CACHE_DURATION
    /\ weatherCache[toLowerCase(req.city)].data = res.data

\* C11: while the credential is not configured, a request for a supported
\* city that finds no fresh cache record is answered 500 with a message,
\* calls no upstream and leaves the cache as it was; so, with the credential
\* missing, the cache is empty in every state, no handler waits for the
\* upstream and no response carries cached:true.
C11_MissingKeyIs500 ==
    /\ [](Len(CWA_API_KEY) = 0 =>
            /\ weatherCache = << >>
            /\ \A city \in CityParams : pending[city] = 0
            /\ res.cached # "true")
    /\ [][ \A city \in CityParams :
             LET k == toLowerCase(city)
             IN  ( /\ Len(CWA_API_KEY) = 0
                   /\ k \in CityKeys
                   /\ variant = "part_000" => getCachedWeather(k) = Undefined
                   /\ getCityWeather(city) )
                 => /\ res'.kind = "json"
                    /\ res'.status = 500
                    /\ res'.message = "present"
                    /\ res'.success = IF variant = "server_v1" THEN "absent" ELSE "false"
                    /\ ~req'.called
                    /\ pending' = pending
                    /\ weatherCache' = weatherCache ]_vars

\* without a credential, a request for a supported city was answered 500
C11_Witness ==
    /\ Len(CWA_API_KEY) = 0
    /\ variant = "part_000"
    /\ req.route = WeatherRoute
    /\ req.city = P_TaiPei
    /\ ~req.called
    /\ res.status = 500

\* C12: a request calls the upstream at most once, and only when its city
\* parameter resolved to one of the supported cities, the cache lookup
\* missed and the credential is set; the step in which a call settles,
\* failed or not, starts no further call.
C12_OneCallAfterChecks ==
    [][ /\ \A city \in CityParams :
             pending'[city] > pending[city]
             => /\ getCityWeather(city)
                /\ pending' = [pending EXCEPT ![city] = @ + 1]
                /\ toLowerCase(city) \in CityKeys
                /\ variant = "part_000" => getCachedWeather(toLowerCase(city)) = Undefined
                /\ Len(CWA_API_KEY) > 0
        /\ \A city \in CityParams, settled \in Outcomes :
             UpstreamSettles(city, settled)
             => \A c \in CityParams : pending'[c] <= pending[c] ]_vars

\* C13: every response of GET /api/weather/:city has status 200, 400, 404,
\* 500 or 504, or the status of the upstream error response that the same
\* request received; every response with a status other than 200 has
\* success:false and a message in its body.
C13_StatusesAndErrorBody ==
    [][ \A city \in CityParams :
          LET errorBody == res'.status # 200 =>
                             res'.success = "false" /\ res'.message = "present"
          IN  /\ (getCityWeather(city) /\ res'.kind = "json")
                 => /\ res'.status \in {200, 400, 404, 500, 504}
                    /\ errorBody
              /\ \A settled \in Outcomes :
                   (UpstreamSettles(city, settled) /\ res'.kind = "json")
                   => /\ \/ res'.status \in {200, 400, 404, 500, 504}
                         \/ /\ settled.kind = "reject"
                            /\ settled.error.hasResponse
                            /\ res'.status = settled.error.status
                      /\ errorBody ]_vars

\* the handler that ran last was answered 200 from an upstream body
Answered200 ==
    /\ req.route = WeatherRoute
    /\ req.upstream = "resolve"
    /\ res.kind = "json"
    /\ res.status = 200

\* the upstream body that answer was built from
AnsweredBody == lastFill[toLowerCase(req.city)].body

\* the positions of the elements of code `code` that have a slot i
WithSlot(elements, code, i) ==
    { n \in 1..Len(elements) :
        elements[n].elementName = code /\ i <= Len(elements[n].time) }

Last(S) == CHOOSE n \in S : \A m \in S : m <= n

\* C14: for a location whose first weather element has N time slots the
\* transform yields exactly N forecast periods in upstream order; period i
\* has the start and end time of slot i of the first element, each of the
\* six fields holds the parameter value at slot i of the element with the
\* matching code (the last such element, should the code occur twice) and
\* is the empty string when no element of that code has a slot i; elements
\* of any other code change nothing.
C14_TransformShape ==
    (Answered200 /\ variant \in {"part_000", "server_v2"}) =>
        LET elements == AnsweredBody.weatherElement
            forecasts == res.data.forecasts
        IN  /\ Len(forecasts) = Len(elements[1].time)
            /\ \A i \in 1..Len(forecasts) :
                 /\ forecasts[i].startTime = elements[1].time[i].startTime
                 /\ forecasts[i].endTime = elements[1].time[i].endTime
                 /\ DOMAIN forecasts[i] =
                      {"startTime", "endTime"} \cup { FieldOf[c] : c \in DOMAIN FieldOf }
                 /\ \A code \in DOMAIN FieldOf :
                      LET with == WithSlot(elements, code, i)
                      IN  forecasts[i][FieldOf[code]] =
                            IF with = {} THEN ""
                            ELSE elements[Last(with)].time[i].parameterName

\* two periods built from a MinT element first and a UVI element second:
\* times and minTemp from the first, nothing from the second
C14_Witness ==
    /\ Answered200
    /\ variant = "server_v2"
    /\ AnsweredBody.weatherElement = << GenElement("MinT", MaxSlots), GenElement("UVI", MaxSlots) >>
    /\ Len(res.data.forecasts) = MaxSlots
    /\ res.data.forecasts[MaxSlots].minTemp = GenElement("MinT", MaxSlots).time[MaxSlots].parameterName
    /\ res.data.forecasts[MaxSlots].maxTemp = ""

\* in the answer, every period has an empty field for each code whose
\* elements all end before that period
ShortSeriesLeftEmpty ==
    LET elements == AnsweredBody.weatherElement
        forecasts == res.data.forecasts
    IN  /\ Len(forecasts) = Len(elements[1].time)
        /\ \A i \in 1..Len(forecasts), n \in 1..Len(elements) :
             LET code == elements[n].elementName
             IN  ( /\ i > Len(elements[n].time)
                   /\ code \in DOMAIN FieldOf
                   /\ WithSlot(elements, code, i) = {} )
                 => forecasts[i][FieldOf[code]] = ""

\* C17: when the series of a weather element is shorter than that of the
\* first element, the transform leaves the element's field empty in the
\* periods the element has no slot for and raises no error: every resolved
\* call whose location has at least one element is answered 200 with as many
\* periods as the first element has slots.
C17_ShortSeriesSkipped ==
    [][ pending'[P_TaiPei] < pending[P_TaiPei] =>
          IF res'.kind = "json" /\ res'.status = 200
          THEN Answered200' /\ ShortSeriesLeftEmpty'
          ELSE \A body \in GenBodies :
                 UpstreamSettles(P_TaiPei, Resolved(body))
                 => Len(body.weatherElement) = 0 ]_vars

\* the first variant of src/server.js answered 200 with two periods for a
\* Wx series of two slots and a PoP series of one: rain is filled in the
\* first period and empty in the second
C17_Witness ==
    /\ Answered200
    /\ variant = "server_v1"
    /\ AnsweredBody.weatherElement = << GenElement("Wx", 2), GenElement("PoP", 1) >>
    /\ Len(res.data.forecasts) = 2
    /\ res.data.forecasts[1].rain = GenElement("PoP", 1).time[1].parameterName \o "%"
    /\ res.data.forecasts[2].rain = ""
    /\ res.data.forecasts[2].weather = GenElement("Wx", 2).time[2].parameterName

\* C18: when the upstream call resolves with a malformed body, a body
\* without data, without records or without records.location is answered
\* 500, a body whose records.location is the empty array is answered 404,
\* and in both cases the cache is left as it was.
C18_MalformedBody ==
    [][ \A city \in CityParams, settled \in Outcomes :
          (UpstreamSettles(city, settled) /\ settled.kind = "resolve")
          => /\ settled.body.shape \in {"empty", "null", "norecords", "nolocation"}
                => /\ res'.kind = "json"
                   /\ res'.status = 500
                   /\ weatherCache' = weatherCache
             /\ settled.body.shape = "emptylocation"
                => /\ res'.kind = "json"
                   /\ res'.status = 404
                   /\ weatherCache' = weatherCache ]_vars

\* a resolved call was answered 404 and the record put earlier is still
\* in the cache
C18_Witness ==
    /\ variant = "part_000"
    /\ req.upstream = "resolve"
    /\ res.status = 404
    /\ toLowerCase(req.city) \in DOMAIN weatherCache

\* C19: in every reachable state the keys of the cache are among the six
\* lowercase city keys of the city map, so the cache never holds more than
\* six records, whatever city parameters clients send.
C19_CacheKeysSupported ==
    variant = "part_000" =>
        /\ DOMAIN weatherCache \subseteq CityKeys
        /\ Cardinality(DOMAIN weatherCache) <= 6

\* C20: every cache record stored under key k has a payload whose cityKey
\* is k, and a response with cached:true carries a payload whose cityKey is
\* the lowercase form of the requested city.
C20_RecordKeyMatches ==
    variant = "part_000" =>
        /\ \A k \in DOMAIN weatherCache : weatherCache[k].data.cityKey = k
        /\ res.cached = "true" =>
             /\ req.route = WeatherRoute
             /\ res.data.cityKey = toLowerCase(req.city)

\* a request for TaiPei answered from the cache with the record stored
\* under taipei, whose payload has the cityKey taipei
C20_Witness ==
    /\ variant = "part_000"
    /\ req.city = P_TaiPei
    /\ res.cached = "true"
    /\ res.data = weatherCache[K_taipei].data
    /\ res.data.cityKey = K_taipei

=============================================================================
